---- MODULE Spec2Model ----
(***************************************************************************)
(* Model of app/database.py: the Database data-access layer over a hosted  *)
(* relational backend (tables influencers, affiliate_links,                *)
(* chat_interactions) and a blob store (bucket "influencer-assets").       *)
(*                                                                         *)
(* The backend is modelled from the statements the code sends to it: the   *)
(* CREATE TABLE text of initialize_tables (PRIMARY KEY, UNIQUE, NOT NULL,  *)
(* FOREIGN KEY ... ON DELETE CASCADE) and the insert / select / update /   *)
(* delete / upload / download calls.  Every backend call may also raise    *)
(* for a reason of its own (transport, quota, ...): each handler takes one *)
(* fault flag per backend call it can make.                                *)
(*                                                                         *)
(* Python None is the empty tuple, a present value v is <<v>>; an SQL NULL *)
(* column is the value NULL.  Server-assigned timestamps (created_at,      *)
(* updated_at) are not part of the rows of the model.                      *)
(***************************************************************************)
EXTENDS Integers, Sequences, FiniteSets, TLC

VARIABLES
    influencers,        \* rows of table influencers
    affiliate_links,    \* rows of table affiliate_links
    chat_interactions,  \* rows of table chat_interactions
    storage,            \* bucket "influencer-assets": path -> bytes
    uuids,              \* number of uuid4() values handed out to inserted rows
    last,               \* the last public call: op, args, ret, backend trace
    lastStored,         \* per influencer id: bytes of the last store that returned a path
    pc,                 \* per concurrent caller: position inside add_affiliate_link
    frame               \* per concurrent caller: the locals of its add_affiliate_link

vars == <<influencers, affiliate_links, chat_interactions, storage, uuids, last,
          lastStored, pc, frame>>

---------------------------------------------------------------------------
(* Bounds and input domains *)

MaxUuid == 3

InfluencerIds == {"i1", "i1/x"}
Usernames == {"ann", "bob"}
Emails == {"a@x", "b@x"}
AffiliateIds == {"", "A", "B"}
Platforms == {"amazon"}
FileNames == {"f.png", "x/f.png"}
FileBytes == {"b1", "b2"}
Callers == {1, 2}

NULL == "<NULL>"
None == <<>>
Some(v) == <<v>>

\* Python truthiness of a column value: None and "" are falsy
Falsy(v) == v = NULL \/ v = ""

\* dict.update / column assignment: u's keys override r's
Merge(r, u) == [k \in DOMAIN r |-> IF k \in DOMAIN u THEN u[k] ELSE r[k]]

\* response.data[0] if response.data else None
First(data) == IF data = {} THEN None ELSE Some(CHOOSE r \in data : TRUE)

Call(name, fault, raised) == [call |-> name, fault |-> fault, raised |-> raised]

DB == [influencers |-> influencers, affiliate_links |-> affiliate_links,
       chat_interactions |-> chat_interactions, storage |-> storage]

---------------------------------------------------------------------------
(* Schema: CREATE TABLE influencers *)

InfluencerDefaults ==
    [id |-> NULL, username |-> NULL, email |-> NULL, password_hash |-> NULL,
     heygen_avatar_id |-> NULL, original_asset_path |-> NULL,
     voice_id |-> "default_voice", affiliate_id |-> NULL, chat_page_url |-> NULL]

InfluencerNotNull == {"id", "username", "email", "password_hash"}

\* PRIMARY KEY (id), UNIQUE (username), UNIQUE (email), NOT NULL columns
InfluencersConstraintNoUnique(tbl) ==
    /\ \A r \in tbl : \A c \in InfluencerNotNull : r[c] # NULL
    /\ \A r1, r2 \in tbl : r1 # r2 => r1.id # r2.id

InfluencersConstraint(tbl) ==
    /\ \A r \in tbl : \A c \in InfluencerNotNull : r[c] # NULL
    /\ \A r1, r2 \in tbl :
          r1 # r2 => /\ r1.id # r2.id
                     /\ r1.username # r2.username
                     /\ r1.email # r2.email

\* table('influencers').insert(data).execute()
InsertInfluencer(db, data, fault) ==
    LET row == Merge(InfluencerDefaults, data)
        bad == \/ ~(DOMAIN data \subseteq DOMAIN InfluencerDefaults)
               \/ \E r \in db.influencers : r.id = row.id
               \/ ~InfluencersConstraint(db.influencers \cup {row})
        raised == fault \/ bad
    IN  [raised |-> raised,
         data |-> IF raised THEN {} ELSE {row},
         db |-> IF raised THEN db
                ELSE [db EXCEPT !.influencers = @ \cup {row}]]

\* table('influencers').select('*').eq(column, value).execute()
SelectInfluencers(db, column, value, fault) ==
    [raised |-> fault,
     data |-> IF fault THEN {} ELSE {r \in db.influencers : r[column] = value},
     db |-> db]

\* table('influencers').select('*').execute()
SelectAllInfluencers(db, fault) ==
    [raised |-> fault, data |-> IF fault THEN {} ELSE db.influencers, db |-> db]

\* table('influencers').update(updates).eq('id', id).execute()
UpdateInfluencerRows(db, id, updates, fault) ==
    LET tbl == {IF r.id = id THEN Merge(r, updates) ELSE r : r \in db.influencers}
        bad == \/ ~(DOMAIN updates \subseteq DOMAIN InfluencerDefaults)
               \/ ~InfluencersConstraint(tbl)
        raised == fault \/ bad
    IN  [raised |-> raised,
         data |-> IF raised THEN {} ELSE {r \in tbl : r.id = id},
         db |-> IF raised THEN db ELSE [db EXCEPT !.influencers = tbl]]

\* a DELETE that leaves the dependent tables alone
DeleteInfluencerRowsNoCascade(db, id, fault) ==
    [raised |-> fault,
     data |-> IF fault THEN {} ELSE {r \in db.influencers : r.id = id},
     db |-> IF fault THEN db
            ELSE [db EXCEPT !.influencers = {r \in @ : r.id # id}]]

\* table('influencers').delete().eq('id', id).execute(), with the two
\* FOREIGN KEY (influencer_id) REFERENCES influencers(id) ON DELETE CASCADE
DeleteInfluencerRows(db, id, fault) ==
    [raised |-> fault,
     data |-> IF fault THEN {} ELSE {r \in db.influencers : r.id = id},
     db |-> IF fault THEN db
            ELSE [db EXCEPT
                    !.influencers = {r \in @ : r.id # id},
                    !.affiliate_links = {l \in @ : l.influencer_id # id},
                    !.chat_interactions = {c \in @ : c.influencer_id # id}]]

---------------------------------------------------------------------------
(* Schema: CREATE TABLE affiliate_links, chat_interactions *)

\* table('affiliate_links').insert(data).execute()
InsertAffiliateLink(db, data, fault) ==
    LET bad == \/ \E l \in db.affiliate_links : l.id = data.id
               \/ \E c \in {"influencer_id", "platform", "affiliate_id"} :
                      data[c] = NULL
               \/ ~\E r \in db.influencers : r.id = data.influencer_id
        raised == fault \/ bad
    IN  [raised |-> raised,
         data |-> IF raised THEN {} ELSE {data},
         db |-> IF raised THEN db
                ELSE [db EXCEPT !.affiliate_links = @ \cup {data}]]

\* table('affiliate_links').select('*').eq('influencer_id', id).execute()
SelectAffiliateLinks(db, id, fault) ==
    [raised |-> fault,
     data |-> IF fault THEN {}
              ELSE {l \in db.affiliate_links : l.influencer_id = id},
     db |-> db]

\* table('chat_interactions').insert(data).execute()
InsertChatInteraction(db, data, fault) ==
    LET bad == \/ \E c \in db.chat_interactions : c.id = data.id
               \/ \E c \in {"influencer_id", "user_message", "bot_response"} :
                      data[c] = NULL
               \/ ~\E r \in db.influencers : r.id = data.influencer_id
        raised == fault \/ bad
    IN  [raised |-> raised,
         data |-> IF raised THEN {} ELSE {data},
         db |-> IF raised THEN db
                ELSE [db EXCEPT !.chat_interactions = @ \cup {data}]]

---------------------------------------------------------------------------
(* Blob store *)

\* storage.from_("influencer-assets").upload(path, bytes): the object at path
\* holds bytes afterwards; a store that refuses the upload (for instance of a
\* path that already holds an object) is the raising outcome
Upload(db, path, bytes, fault) ==
    [raised |-> fault,
     db |-> IF fault THEN db
            ELSE [db EXCEPT !.storage =
                    [p \in DOMAIN @ \cup {path} |-> IF p = path THEN bytes ELSE @[p]]]]

\* storage.from_("influencer-assets").download(path)
Download(db, path, fault) ==
    LET raised == fault \/ path \notin DOMAIN db.storage
    IN  [raised |-> raised,
         data |-> IF raised THEN None ELSE Some(db.storage[path]),
         db |-> db]

\* f"original_avatars/{influencer_id}/{file_name}"
FilePath(influencer_id, file_name) ==
    "original_avatars/" \o influencer_id \o "/" \o file_name

\* f"/chat/{username}"
ChatPageUrl(username) == "/chat/" \o username

---------------------------------------------------------------------------
(* The handlers of class Database.  Each is given the backend state, its   *)
(* arguments and one fault flag per backend call, and yields the returned  *)
(* value, the backend state it leaves, and the backend calls it made.      *)

Result(ret, db, trace) == [ret |-> ret, db |-> db, trace |-> trace]

\* influencer_data[key] = value
Put(d, key, value) ==
    [k \in DOMAIN d \cup {key} |-> IF k = key THEN value ELSE d[k]]

required_fields == {"id", "username", "email", "password_hash"}

create_influencer(db, influencer_data, fault) ==
    IF ~(required_fields \subseteq DOMAIN influencer_data)
    THEN Result(None, db, <<>>)
    ELSE LET data == Put(influencer_data, "chat_page_url",
                         ChatPageUrl(influencer_data.username))
             r == InsertInfluencer(db, data, fault)
         IN  Result(IF r.raised THEN None ELSE First(r.data), r.db,
                    <<Call("influencers.insert", fault, r.raised)>>)

get_influencer_by_username(db, username, fault) ==
    LET r == SelectInfluencers(db, "username", username, fault)
    IN  Result(IF r.raised THEN None ELSE First(r.data), r.db,
               <<Call("influencers.select", fault, r.raised)>>)

get_influencer_by_email(db, email, fault) ==
    LET r == SelectInfluencers(db, "email", email, fault)
    IN  Result(IF r.raised THEN None ELSE First(r.data), r.db,
               <<Call("influencers.select", fault, r.raised)>>)

get_influencer(db, influencer_id, fault) ==
    LET r == SelectInfluencers(db, "id", influencer_id, fault)
    IN  Result(IF r.raised THEN None ELSE First(r.data), r.db,
               <<Call("influencers.select", fault, r.raised)>>)

\* an update that reports failure when no row matched
update_influencer_NotFound(db, influencer_id, updates, fault) ==
    IF DOMAIN updates = {}
    THEN Result(FALSE, db, <<>>)
    ELSE LET r == UpdateInfluencerRows(db, influencer_id, updates, fault)
         IN  Result(~r.raised /\ r.data # {}, r.db,
                    <<Call("influencers.update", fault, r.raised)>>)

update_influencer(db, influencer_id, updates, fault) ==
    IF DOMAIN updates = {}
    THEN Result(FALSE, db, <<>>)
    ELSE LET r == UpdateInfluencerRows(db, influencer_id, updates, fault)
         IN  Result(~r.raised, r.db,
                    <<Call("influencers.update", fault, r.raised)>>)

delete_influencer(db, influencer_id, fault) ==
    LET r == DeleteInfluencerRows(db, influencer_id, fault)
    IN  Result(~r.raised, r.db, <<Call("influencers.delete", fault, r.raised)>>)

get_all_influencers(db, fault) ==
    LET r == SelectAllInfluencers(db, fault)
    IN  Result(IF r.raised THEN {} ELSE r.data, r.db,
               <<Call("influencers.select", fault, r.raised)>>)

store_original_asset(db, influencer_id, file_bytes, file_name, f1, f2) ==
    LET file_path == FilePath(influencer_id, file_name)
        u == Upload(db, file_path, file_bytes, f1)
        up == <<Call("storage.upload", f1, u.raised)>>
    IN  IF u.raised
        THEN Result(None, u.db, up)
        ELSE LET w == update_influencer(u.db, influencer_id,
                                        [original_asset_path |-> file_path], f2)
             IN  Result(Some(file_path), w.db, up \o w.trace)

\* a retrieve that checks only that the influencer exists before downloading
get_original_asset_NoPathCheck(db, influencer_id, f1, f2) ==
    LET g == get_influencer(db, influencer_id, f1)
    IN  IF g.ret = None
        THEN Result(None, g.db, g.trace)
        ELSE LET d == Download(g.db, g.ret[1].original_asset_path, f2)
             IN  Result(IF d.raised THEN None ELSE d.data, d.db,
                        g.trace \o <<Call("storage.download", f2, d.raised)>>)

get_original_asset(db, influencer_id, f1, f2) ==
    LET g == get_influencer(db, influencer_id, f1)
    IN  IF g.ret = None \/ Falsy(g.ret[1].original_asset_path)
        THEN Result(None, g.db, g.trace)
        ELSE LET d == Download(g.db, g.ret[1].original_asset_path, f2)
             IN  Result(IF d.raised THEN None ELSE d.data, d.db,
                        g.trace \o <<Call("storage.download", f2, d.raised)>>)

\* a conditional write: the default is set only where it is still unset
SetDefaultAffiliateIfUnset(db, influencer_id, affiliate_id, fault) ==
    IF \E r \in db.influencers : r.id = influencer_id /\ ~Falsy(r.affiliate_id)
    THEN Result(TRUE, db, <<Call("influencers.update", fault, fault)>>)
    ELSE update_influencer(db, influencer_id, [affiliate_id |-> affiliate_id], fault)

\* self.update_influencer(influencer_id, {'affiliate_id': affiliate_id})
SetDefaultAffiliate(db, influencer_id, affiliate_id, fault) ==
    update_influencer(db, influencer_id, [affiliate_id |-> affiliate_id], fault)

\* the dict built at the top of add_affiliate_link
affiliate_data(uuid, influencer_id, platform, affiliate_id) ==
    [id |-> uuid, influencer_id |-> influencer_id, platform |-> platform,
     affiliate_id |-> affiliate_id]

add_affiliate_link(db, uuid, influencer_id, platform, affiliate_id, f1, f2, f3) ==
    LET ins == InsertAffiliateLink(
                   db, affiliate_data(uuid, influencer_id, platform, affiliate_id), f1)
        t1 == <<Call("affiliate_links.insert", f1, ins.raised)>>
    IN  IF ins.raised
        THEN Result(None, ins.db, t1)
        ELSE LET g == get_influencer(ins.db, influencer_id, f2)
             IN  IF g.ret = None
                 THEN \* influencer.get on None raises, caught by the handler
                      Result(None, g.db, t1 \o g.trace)
                 ELSE IF Falsy(g.ret[1].affiliate_id)
                 THEN LET w == SetDefaultAffiliate(g.db, influencer_id,
                                                   affiliate_id, f3)
                      IN  Result(First(ins.data), w.db, t1 \o g.trace \o w.trace)
                 ELSE Result(First(ins.data), g.db, t1 \o g.trace)

get_affiliate_links(db, influencer_id, fault) ==
    LET r == SelectAffiliateLinks(db, influencer_id, fault)
    IN  Result(IF r.raised THEN {} ELSE r.data, r.db,
               <<Call("affiliate_links.select", fault, r.raised)>>)

get_primary_affiliate_id(db, influencer_id, fault) ==
    LET g == get_influencer(db, influencer_id, fault)
    IN  Result(IF g.ret = None \/ g.ret[1].affiliate_id = NULL
               THEN None ELSE Some(g.ret[1].affiliate_id),
               g.db, g.trace)

log_chat_interaction(db, uuid, influencer_id, user_message, bot_response, product_recommendations, fault) ==
    LET interaction_data ==
            [id |-> uuid, influencer_id |-> influencer_id,
             user_message |-> user_message, bot_response |-> bot_response,
             product_recommendations |-> product_recommendations]
        r == InsertChatInteraction(db, interaction_data, fault)
    IN  Result(IF r.raised THEN None ELSE First(r.data), r.db,
               <<Call("chat_interactions.insert", fault, r.raised)>>)

---------------------------------------------------------------------------
(* State machine: one action per public call *)

Owned(tbl, id) == Cardinality({r \in tbl : r.influencer_id = id})

NoFrame == [influencer_id |-> NULL, platform |-> NULL, affiliate_id |-> NULL,
            response |-> None, wrote |-> FALSE, ret |-> None]

\* The returned value as recorded in `last`, tagged by its Python type
RetNone == [none |-> TRUE]
RetRow(v) == IF v = None THEN RetNone ELSE [row |-> v[1]]
RetStr(v) == IF v = None THEN RetNone ELSE [str |-> v[1]]
RetBool(b) == [bool |-> b]
RetList(rows) == [list |-> rows]

NoPre == [matched |-> FALSE, links |-> 0, chats |-> 0]

Init ==
    /\ influencers = {}
    /\ affiliate_links = {}
    /\ chat_interactions = {}
    /\ storage = <<>>
    /\ uuids = 0
    /\ last = [op |-> "__init__", args |-> <<>>, ret |-> RetNone, trace |-> <<>>,
               pre |-> NoPre]
    /\ lastStored = [i \in InfluencerIds |-> None]
    /\ pc = [c \in Callers |-> "idle"]
    /\ frame = [c \in Callers |-> NoFrame]

Apply(res) ==
    /\ influencers' = res.db.influencers
    /\ affiliate_links' = res.db.affiliate_links
    /\ chat_interactions' = res.db.chat_interactions
    /\ storage' = res.db.storage

Returned(op, args, ret, trace, pre) ==
    last' = [op |-> op, args |-> args, ret |-> ret, trace |-> trace, pre |-> pre]

Do_create_influencer(influencer_data, fault) ==
    LET res == create_influencer(DB, influencer_data, fault)
    IN  /\ Apply(res)
        /\ Returned("create_influencer", [influencer_data |-> influencer_data],
                    RetRow(res.ret), res.trace, NoPre)
        /\ UNCHANGED <<uuids, lastStored, pc, frame>>

Do_get_influencer_by_username(username, fault) ==
    LET res == get_influencer_by_username(DB, username, fault)
    IN  /\ Apply(res)
        /\ Returned("get_influencer_by_username", [username |-> username],
                    RetRow(res.ret), res.trace, NoPre)
        /\ UNCHANGED <<uuids, lastStored, pc, frame>>

Do_get_influencer_by_email(email, fault) ==
    LET res == get_influencer_by_email(DB, email, fault)
    IN  /\ Apply(res)
        /\ Returned("get_influencer_by_email", [email |-> email],
                    RetRow(res.ret), res.trace, NoPre)
        /\ UNCHANGED <<uuids, lastStored, pc, frame>>

Do_get_influencer(influencer_id, fault) ==
    LET res == get_influencer(DB, influencer_id, fault)
    IN  /\ Apply(res)
        /\ Returned("get_influencer", [influencer_id |-> influencer_id],
                    RetRow(res.ret), res.trace, NoPre)
        /\ UNCHANGED <<uuids, lastStored, pc, frame>>

Do_update_influencer(influencer_id, updates, fault) ==
    LET res == update_influencer(DB, influencer_id, updates, fault)
    IN  /\ Apply(res)
        /\ Returned("update_influencer",
                    [influencer_id |-> influencer_id, updates |-> updates],
                    RetBool(res.ret), res.trace,
                    [NoPre EXCEPT !.matched =
                        \E r \in influencers : r.id = influencer_id])
        /\ UNCHANGED <<uuids, lastStored, pc, frame>>

Do_delete_influencer(influencer_id, fault) ==
    LET res == delete_influencer(DB, influencer_id, fault)
    IN  /\ Apply(res)
        /\ Returned("delete_influencer", [influencer_id |-> influencer_id],
                    RetBool(res.ret), res.trace,
                    [NoPre EXCEPT !.links = Owned(affiliate_links, influencer_id),
                                  !.chats = Owned(chat_interactions, influencer_id)])
        /\ lastStored' = IF res.ret THEN [lastStored EXCEPT ![influencer_id] = None]
                         ELSE lastStored
        /\ UNCHANGED <<uuids, pc, frame>>

Do_get_all_influencers(fault) ==
    LET res == get_all_influencers(DB, fault)
    IN  /\ Apply(res)
        /\ Returned("get_all_influencers", <<>>, RetList(res.ret), res.trace, NoPre)
        /\ UNCHANGED <<uuids, lastStored, pc, frame>>

Do_store_original_asset(influencer_id, file_bytes, file_name, f1, f2) ==
    LET res == store_original_asset(DB, influencer_id, file_bytes, file_name, f1, f2)
    IN  /\ Apply(res)
        /\ Returned("store_original_asset",
                    [influencer_id |-> influencer_id, file_bytes |-> file_bytes,
                     file_name |-> file_name],
                    RetStr(res.ret), res.trace, NoPre)
        /\ lastStored' =
              IF res.ret # None /\ \E r \in influencers : r.id = influencer_id
              THEN [lastStored EXCEPT ![influencer_id] = Some(file_bytes)]
              ELSE lastStored
        /\ UNCHANGED <<uuids, pc, frame>>

Do_get_original_asset(influencer_id, f1, f2) ==
    LET res == get_original_asset(DB, influencer_id, f1, f2)
    IN  /\ Apply(res)
        /\ Returned("get_original_asset", [influencer_id |-> influencer_id],
                    RetStr(res.ret), res.trace, NoPre)
        /\ UNCHANGED <<uuids, lastStored, pc, frame>>

Do_add_affiliate_link(influencer_id, platform, affiliate_id, f1, f2, f3) ==
    /\ uuids < MaxUuid
    /\ LET res == add_affiliate_link(DB, uuids + 1, influencer_id, platform,
                                     affiliate_id, f1, f2, f3)
       IN  /\ Apply(res)
           /\ Returned("add_affiliate_link",
                       [influencer_id |-> influencer_id, platform |-> platform,
                        affiliate_id |-> affiliate_id],
                       RetRow(res.ret), res.trace, NoPre)
           /\ uuids' = IF res.db.affiliate_links # affiliate_links
                       THEN uuids + 1 ELSE uuids
    /\ UNCHANGED <<lastStored, pc, frame>>

Do_get_affiliate_links(influencer_id, fault) ==
    LET res == get_affiliate_links(DB, influencer_id, fault)
    IN  /\ Apply(res)
        /\ Returned("get_affiliate_links", [influencer_id |-> influencer_id],
                    RetList(res.ret), res.trace, NoPre)
        /\ UNCHANGED <<uuids, lastStored, pc, frame>>

Do_get_primary_affiliate_id(influencer_id, fault) ==
    LET res == get_primary_affiliate_id(DB, influencer_id, fault)
    IN  /\ Apply(res)
        /\ Returned("get_primary_affiliate_id", [influencer_id |-> influencer_id],
                    RetStr(res.ret), res.trace, NoPre)
        /\ UNCHANGED <<uuids, lastStored, pc, frame>>

Do_log_chat_interaction(influencer_id, user_message, bot_response, product_recommendations, fault) ==
    /\ uuids < MaxUuid
    /\ LET res == log_chat_interaction(DB, uuids + 1, influencer_id, user_message,
                                       bot_response, product_recommendations, fault)
       IN  /\ Apply(res)
           /\ Returned("log_chat_interaction",
                       [influencer_id |-> influencer_id,
                        user_message |-> user_message,
                        bot_response |-> bot_response,
                        product_recommendations |-> product_recommendations],
                       RetRow(res.ret), res.trace, NoPre)
           /\ uuids' = IF res.db.chat_interactions # chat_interactions
                       THEN uuids + 1 ELSE uuids
    /\ UNCHANGED <<lastStored, pc, frame>>

---------------------------------------------------------------------------
(* add_affiliate_link called by concurrent callers: the backend serializes *)
(* each statement, the handler holds no lock between its three statements. *)

\* line 225: the insert
Conc_insert(c, influencer_id, platform, affiliate_id, f1) ==
    /\ pc[c] = "idle"
    /\ uuids < MaxUuid
    /\ LET ins == InsertAffiliateLink(
                      DB, affiliate_data(uuids + 1, influencer_id, platform,
                                         affiliate_id), f1)
       IN  /\ Apply(ins)
           /\ uuids' = IF ins.raised THEN uuids ELSE uuids + 1
           /\ pc' = [pc EXCEPT ![c] = IF ins.raised THEN "done" ELSE "inserted"]
           /\ frame' = [frame EXCEPT ![c] =
                  [influencer_id |-> influencer_id, platform |-> platform,
                   affiliate_id |-> affiliate_id, response |-> First(ins.data),
                   wrote |-> FALSE, ret |-> None]]
    /\ UNCHANGED <<last, lastStored>>

\* lines 228-229: the read of the influencer and the test of its default
Conc_get(c, f2) ==
    /\ pc[c] = "inserted"
    /\ LET g == get_influencer(DB, frame[c].influencer_id, f2)
       IN  /\ Apply(g)
           /\ IF g.ret = None
              THEN /\ pc' = [pc EXCEPT ![c] = "done"]
                   /\ frame' = [frame EXCEPT ![c].ret = None]
              ELSE IF Falsy(g.ret[1].affiliate_id)
              THEN /\ pc' = [pc EXCEPT ![c] = "unset"]
                   /\ frame' = frame
              ELSE /\ pc' = [pc EXCEPT ![c] = "done"]
                   /\ frame' = [frame EXCEPT ![c].ret = frame[c].response]
    /\ UNCHANGED <<uuids, last, lastStored>>

\* line 230: the write of the default
Conc_update(c, f3) ==
    /\ pc[c] = "unset"
    /\ LET w == SetDefaultAffiliate(DB, frame[c].influencer_id,
                                    frame[c].affiliate_id, f3)
       IN  /\ Apply(w)
           /\ pc' = [pc EXCEPT ![c] = "done"]
           /\ frame' = [frame EXCEPT ![c].ret = frame[c].response,
                                     ![c].wrote = w.ret]
    /\ UNCHANGED <<uuids, last, lastStored>>

\* lines 232-235: the return
Conc_return(c) ==
    /\ pc[c] = "done"
    /\ pc' = [pc EXCEPT ![c] = "idle"]
    /\ frame' = [frame EXCEPT ![c] = NoFrame]
    /\ Returned("add_affiliate_link",
                [influencer_id |-> frame[c].influencer_id,
                 platform |-> frame[c].platform,
                 affiliate_id |-> frame[c].affiliate_id],
                RetRow(frame[c].ret), <<>>, NoPre)
    /\ UNCHANGED <<influencers, affiliate_links, chat_interactions, storage, uuids,
                   lastStored>>

---------------------------------------------------------------------------
(* Specifications *)

FullData(id, username, email) ==
    [id |-> id, username |-> username, email |-> email, password_hash |-> "h"]

\* every complete dict over the input domains, and one without 'email'
CreateInputs ==
    {FullData(i, u, e) : i \in InfluencerIds, u \in Usernames, e \in Emails}
        \cup {[id |-> "i1", username |-> "ann", password_hash |-> "h"]}

UpdateInputs ==
    {<<>>} \cup {[username |-> u] : u \in Usernames}
           \cup {[email |-> e] : e \in Emails}
           \cup {[affiliate_id |-> "A"]}

\* one profile per influencer id
ProfileInputs == {FullData("i1", "ann", "a@x"), FullData("i1/x", "bob", "b@x")}

\* influencer CRUD
NextInf ==
    \E f \in BOOLEAN :
        \/ \E d \in CreateInputs : Do_create_influencer(d, f)
        \/ \E i \in InfluencerIds, u \in UpdateInputs : Do_update_influencer(i, u, f)
        \/ \E i \in InfluencerIds : Do_delete_influencer(i, f)
        \/ \E i \in InfluencerIds : Do_get_influencer(i, f)
        \/ \E i \in InfluencerIds : Do_get_primary_affiliate_id(i, f)
        \/ \E u \in Usernames : Do_get_influencer_by_username(u, f)
        \/ \E e \in Emails : Do_get_influencer_by_email(e, f)
        \/ Do_get_all_influencers(f)

SpecInf == Init /\ [][NextInf]_vars

\* avatar assets
NextAsset ==
    \/ \E d \in ProfileInputs, f \in BOOLEAN : Do_create_influencer(d, f)
    \/ \E i \in InfluencerIds, f \in BOOLEAN :
          Do_update_influencer(i, [original_asset_path |-> ""], f)
    \/ \E i \in InfluencerIds, f \in BOOLEAN : Do_delete_influencer(i, f)
    \/ \E i \in InfluencerIds, b \in FileBytes, n \in FileNames,
          f1 \in BOOLEAN, f2 \in BOOLEAN :
          Do_store_original_asset(i, b, n, f1, f2)
    \/ \E i \in InfluencerIds, f1 \in BOOLEAN, f2 \in BOOLEAN :
          Do_get_original_asset(i, f1, f2)

SpecAsset == Init /\ [][NextAsset]_vars

\* affiliate links and the chat log
NextAff ==
    \/ \E d \in ProfileInputs, f \in BOOLEAN : Do_create_influencer(d, f)
    \/ \E i \in InfluencerIds, f \in BOOLEAN : Do_delete_influencer(i, f)
    \/ \E i \in InfluencerIds, p \in Platforms, a \in AffiliateIds,
          f1 \in BOOLEAN, f2 \in BOOLEAN, f3 \in BOOLEAN :
          Do_add_affiliate_link(i, p, a, f1, f2, f3)
    \/ \E i \in InfluencerIds, f \in BOOLEAN : Do_get_affiliate_links(i, f)
    \/ \E i \in InfluencerIds, f \in BOOLEAN :
          Do_log_chat_interaction(i, "hi", "hello", TRUE, f)

SpecAff == Init /\ [][NextAff]_vars

\* concurrent callers of add_affiliate_link for one influencer
ConcAffiliateIds == {"A", "B"}

NextConc ==
    \/ \E f \in BOOLEAN : Do_create_influencer(FullData("i1", "ann", "a@x"), f)
    \/ \E c \in Callers, p \in Platforms, a \in ConcAffiliateIds, f \in BOOLEAN :
          Conc_insert(c, "i1", p, a, f)
    \/ \E c \in Callers, f \in BOOLEAN : Conc_get(c, f)
    \/ \E c \in Callers, f \in BOOLEAN : Conc_update(c, f)
    \/ \E c \in Callers : Conc_return(c)

SpecConc == Init /\ [][NextConc]_vars

---------------------------------------------------------------------------
(* Properties *)

Exists(id) == \E r \in influencers : r.id = id
Row(id) == CHOOSE r \in influencers : r.id = id
LinksOf(id) == {l \in affiliate_links : l.influencer_id = id}
\* uuids are handed out in increasing order: the smallest id is the first insert
FirstLink(id) == CHOOSE l \in LinksOf(id) : \A m \in LinksOf(id) : l.id <= m.id
Calls(trace) == {trace[k].call : k \in 1..Len(trace)}
Raised(trace) == \E k \in 1..Len(trace) : trace[k].raised
Faulted(trace) == \E k \in 1..Len(trace) : trace[k].fault

\* C1: no two influencer rows ever share a username or an email, and a
\* create_influencer whose username or email equals that of an existing row
\* returns None and adds no row.
C1_UniqueUsernameEmail ==
    /\ [](\A r1, r2 \in influencers :
            r1 # r2 => r1.username # r2.username /\ r1.email # r2.email)
    /\ [][(/\ last'.op = "create_influencer"
           /\ required_fields \subseteq DOMAIN last'.args.influencer_data
           /\ \E r \in influencers : \/ r.username = last'.args.influencer_data.username
                                     \/ r.email = last'.args.influencer_data.email)
          => (last'.ret = RetNone /\ influencers' = influencers)]_vars

\* C1 witness: a create was refused, with no injected fault, because another
\* influencer already holds its username (its id and email being free).
C1_Witness ==
    /\ last.op = "create_influencer"
    /\ required_fields \subseteq DOMAIN last.args.influencer_data
    /\ last.ret = RetNone
    /\ ~Faulted(last.trace)
    /\ ~Exists(last.args.influencer_data.id)
    /\ \E r \in influencers : /\ r.username = last.args.influencer_data.username
                              /\ r.email # last.args.influencer_data.email

\* C7: update_influencer on an id that matches no row leaves the table as it
\* is and, given a non-empty map, returns True exactly when the backend call
\* does not raise; update_influencer returns False only for an empty map or a
\* raising backend call.
C7_UpdateMissingReportsSuccess ==
    [][last'.op = "update_influencer" =>
         LET id == last'.args.influencer_id
             updates == last'.args.updates
             raised == Raised(last'.trace)
         IN  /\ (last'.ret = RetBool(FALSE)) <=> (DOMAIN updates = {} \/ raised)
             /\ ~Exists(id) =>
                  /\ influencers' = influencers
                  /\ (DOMAIN updates # {} /\ ~Faulted(last'.trace))
                        => last'.ret = RetBool(TRUE)]_vars

\* C7 witness: an update of an id with no row returned True while other rows exist.
C7_Witness ==
    /\ last.op = "update_influencer"
    /\ last.ret = RetBool(TRUE)
    /\ ~last.pre.matched
    /\ influencers # {}

\* C3: a delete_influencer(id) that returns True leaves no affiliate_links row
\* and no chat_interactions row of that id, and leaves every row of the other
\* influencers in place.
C3_CascadeDelete ==
    [][(last'.op = "delete_influencer" /\ last'.ret = RetBool(TRUE)) =>
         LET id == last'.args.influencer_id
         IN  /\ \A l \in affiliate_links' : l.influencer_id # id
             /\ \A c \in chat_interactions' : c.influencer_id # id
             /\ affiliate_links' = {l \in affiliate_links : l.influencer_id # id}
             /\ chat_interactions' = {c \in chat_interactions : c.influencer_id # id}
             /\ influencers' = {r \in influencers : r.id # id}]_vars

\* C3 witness: the deleted influencer owned links and chat interactions, and
\* rows of another influencer remain.
C3_Witness ==
    /\ last.op = "delete_influencer"
    /\ last.ret = RetBool(TRUE)
    /\ last.pre.links >= 1
    /\ last.pre.chats >= 1
    /\ affiliate_links \cup chat_interactions # {}

\* C8: get_original_asset for an influencer that does not exist or whose
\* original_asset_path is unset returns None without a download; a download
\* happens only after the lookup returned a row with a non-empty path.
C8_NoDownloadWithoutPath ==
    last.op = "get_original_asset" =>
        LET id == last.args.influencer_id
            trace == last.trace
        IN  /\ (~Exists(id) \/ Falsy(Row(id).original_asset_path)) =>
                  (last.ret = RetNone /\ "storage.download" \notin Calls(trace))
            /\ "storage.download" \in Calls(trace) =>
                  /\ Len(trace) = 2
                  /\ trace[1].call = "influencers.select" /\ ~trace[1].raised
                  /\ trace[2].call = "storage.download"
                  /\ Exists(id) /\ ~Falsy(Row(id).original_asset_path)

\* C8 witness: the influencer exists with no recorded path while the bucket
\* holds an object under its prefix, and the retrieve's lookup did not raise.
C8_Witness ==
    /\ last.op = "get_original_asset"
    /\ Exists(last.args.influencer_id)
    /\ Row(last.args.influencer_id).original_asset_path = NULL
    /\ \E n \in FileNames : FilePath(last.args.influencer_id, n) \in DOMAIN storage
    /\ ~Raised(last.trace)

\* C9: a caller's write of the default sets affiliate_id to that caller's
\* affiliate id whatever the default has become since the caller read it, so
\* the update executed last decides the final value.
C9_LastWriteWins ==
    [][\A c \in Callers :
         (pc[c] = "unset" /\ pc'[c] = "done" /\ frame'[c].wrote) =>
            \A r \in influencers' :
                r.id = frame[c].influencer_id => r.affiliate_id = frame[c].affiliate_id]_vars

\* C9 witness: both callers read "no default", both wrote it, and the default
\* is not the affiliate id of the link inserted first.
C9_Witness ==
    /\ \A c \in Callers : pc[c] = "done" /\ frame[c].wrote
    /\ frame[1].influencer_id = frame[2].influencer_id
    /\ Exists(frame[1].influencer_id)
    /\ Row(frame[1].influencer_id).affiliate_id
          # FirstLink(frame[1].influencer_id).affiliate_id

\* C2 as stated: once an add_affiliate_link has returned a link for an
\* influencer, that influencer's default is the affiliate id of the first link
\* added to it.
C2_FirstWriteWins ==
    (/\ last.op = "add_affiliate_link"
     /\ last.ret # RetNone
     /\ Exists(last.args.influencer_id))
    => Row(last.args.influencer_id).affiliate_id
          = FirstLink(last.args.influencer_id).affiliate_id

\* C4 as stated: for an existing influencer, a retrieve (with no injected
\* fault) returns the bytes of the most recent store that returned a path.
C4_RoundTrip ==
    (/\ last.op = "get_original_asset"
     /\ Exists(last.args.influencer_id)
     /\ lastStored[last.args.influencer_id] # None
     /\ ~Faulted(last.trace))
    => last.ret = RetStr(lastStored[last.args.influencer_id])

OptionalOps == {"create_influencer", "store_original_asset", "add_affiliate_link",
                "log_chat_interaction"}
BoolOps == {"update_influencer", "delete_influencer"}
GetterOps == {"get_influencer", "get_influencer_by_username",
              "get_influencer_by_email", "get_original_asset",
              "get_primary_affiliate_id"}
ListOps == {"get_all_influencers", "get_affiliate_links"}

\* C5 as stated: a call that returns its failure sentinel leaves the tables and
\* the blob store as they were.
C5_FailureChangesNothing ==
    [][(\/ last'.op \in OptionalOps /\ last'.ret = RetNone
        \/ last'.op \in BoolOps /\ last'.ret = RetBool(FALSE))
       => (/\ influencers' = influencers
           /\ affiliate_links' = affiliate_links
           /\ chat_interactions' = chat_interactions
           /\ storage' = storage)]_vars

\* C6 as stated: a call one of whose backend calls raised returns its sentinel.
C6_RaiseGivesSentinel ==
    Raised(last.trace) =>
        \/ last.op \in OptionalOps \cup GetterOps /\ last.ret = RetNone
        \/ last.op \in BoolOps /\ last.ret = RetBool(FALSE)
        \/ last.op \in ListOps /\ last.ret = RetList({})

\* C10 as stated, for an influencer that exists: a store that returns a path
\* returns the namespaced path, the bucket holds the bytes there, and the row
\* records that path.
C10_StoreRecordsPath ==
    (/\ last.op = "store_original_asset"
     /\ last.ret # RetNone
     /\ Exists(last.args.influencer_id)) =>
        LET path == FilePath(last.args.influencer_id, last.args.file_name)
        IN  /\ last.ret = [str |-> path]
            /\ path \in DOMAIN storage /\ storage[path] = last.args.file_bytes
            /\ Row(last.args.influencer_id).original_asset_path = path

====
